---- MODULE Spec2Model ----
(***************************************************************************)
(* respRT: reconstruction of reaction-time logs, respiration-belt phase    *)
(* extraction, event/phase merging and the batch drivers around them.      *)
(*                                                                         *)
(* Four specifications share this module:                                  *)
(*   SpecRecon   recon.py          reconstruct_rt_csv on one batch         *)
(*   SpecPhase   process_data.py   compute_belt_phase, phase_label and     *)
(*                                 phase_interp on one belt signal         *)
(*   SpecMerge   process_data.py   the per-participant loop and the        *)
(*                                 cleaning / master step                  *)
(*   SpecBatch   recon.py, csv_processor.py   the two per-file drivers     *)
(*                                                                         *)
(* Time is counted in whole units of 0.25 s.  Timestamps read from a file  *)
(* lie on the even units, so that the mean of two onset deltas (the median *)
(* of an even number of values) is again a whole number of units, as the   *)
(* mean of two microsecond deltas is a whole number of nanoseconds.        *)
(***************************************************************************)
EXTENDS Integers, Sequences, FiniteSets, TLC

VARIABLES
    df,               \* recon: the batch handed to reconstruct_rt_csv
    recon,            \* recon: what the call produced ("pending" before it)
    belt_t,           \* phase: belt['t_utc'], indexed from 0
    belt_x,           \* phase: belt['force_smooth'], indexed from 0
    phase_deg,        \* phase: belt['phase_deg']
    phase_label,      \* phase: belt['phase_label']
    response_ts_sec,  \* phase: one RT event's response time
    resp_phase_deg,   \* phase: rt['resp_phase_deg'] of that event
    resp_phase_label, \* phase: rt['resp_phase_label'] of that event
    ppc,              \* phase: "start", "phased" or "mapped"
    input_dir,        \* batch: data/raw_rt, file name -> file
    output_dir,       \* batch: data/reconstructed, file name -> file
    bpc,              \* batch: where the two drivers stand
    csv_path,         \* batch: the file the running loop is at (0: none)
    recon_log,        \* batch: batch_reconstruct's outcome per file
    csv_log,          \* batch: csv_processor's outcome per file
    raw_dir,          \* merge: config.RAW_DIR, participant -> RT and belt file
    merged_dir,       \* merge: config.MERGED_DIR, participant -> merged file
    clean_dir,        \* merge: config.CLEAN_DIR, participant -> cleaned file
    clean_log,        \* merge: rows the audit log reports dropped, per file
    all_participants, \* merge: the list all_participants
    master,           \* merge: the master file this run wrote, if any
    mpc,              \* merge: "loop", "cleaning", "complete" or "terminated"
    pid,              \* merge: the participant the loop is at
    merge_log,        \* merge: what the loop printed for each participant
    merge_error,      \* merge: the exception that ended the script
    distance          \* merge: the last auto-tuned peak distance printed

reconVars == <<df, recon>>
phaseVars == <<belt_t, belt_x, phase_deg, phase_label, response_ts_sec,
               resp_phase_deg, resp_phase_label, ppc>>
batchVars == <<input_dir, output_dir, bpc, csv_path, recon_log, csv_log>>
mergeVars == <<raw_dir, merged_dir, clean_dir, clean_log, all_participants,
               master, mpc, pid, merge_log, merge_error, distance>>
vars == <<reconVars, phaseVars, batchVars, mergeVars>>

(***************************************************************************)
(* Bounds of the model.                                                    *)
(***************************************************************************)
MaxEvents == 3
MaxSamples == 6
MaxFiles == 3
MaxParticipants == 3

(***************************************************************************)
(* Optional values: a pandas cell is a value or null (NaT / NaN).          *)
(***************************************************************************)
Null == [null |-> TRUE, v |-> 0]
Val(n) == [null |-> FALSE, v |-> n]

Abs(n) == IF n < 0 THEN -n ELSE n

(***************************************************************************)
(*                       recon.py: reconstruct_rt_csv                      *)
(***************************************************************************)
MAX_ONSET_DEVIATION == 4

\* A raw CSV cell: a parseable timestamp, an empty cell, or text that is
\* no timestamp.
TsCell(n) == [kind |-> "ts", v |-> n]
NullCell == [kind |-> "null", v |-> 0]
BadCell == [kind |-> "bad", v |-> 0]

\* pd.to_datetime(col, utc=True, errors="coerce"): what does not parse is NaT.
to_datetime(cell) == IF cell.kind = "ts" THEN Val(cell.v) ELSE Null

\* Timestamp - Timestamp, in seconds; NaT on either side gives NaN.
onset_delta(actual, scheduled) ==
    IF actual.null \/ scheduled.null THEN Null ELSE Val(actual.v - scheduled.v)

onset_ok_le(delta) == (~delta.null) /\ Abs(delta.v) <= MAX_ONSET_DEVIATION

onset_ok(delta) == (~delta.null) /\ Abs(delta.v) < MAX_ONSET_DEVIATION

\* Insertion of one number into an ascending sequence.
RECURSIVE Insert(_, _)
Insert(s, x) ==
    IF s = <<>> THEN <<x>>
    ELSE IF x <= Head(s) THEN <<x>> \o s
    ELSE <<Head(s)>> \o Insert(Tail(s), x)

RECURSIVE sort_values(_)
sort_values(s) == IF s = <<>> THEN <<>> ELSE Insert(sort_values(Tail(s)), Head(s))

\* The values of s at the positions where keep is TRUE, in order.
RECURSIVE Compress(_, _)
Compress(s, keep) ==
    IF s = <<>> THEN <<>>
    ELSE (IF Head(keep) THEN <<Head(s)>> ELSE <<>>)
         \o Compress(Tail(s), Tail(keep))

median_lower(s) == sort_values(s)[(Len(s) + 1) \div 2]

\* Series.median() of a non-empty series of numbers: the middle value, or
\* the mean of the two middle values.
median(s) ==
    LET o == sort_values(s)
        n == Len(o)
    IN  IF n % 2 = 1 THEN o[(n + 1) \div 2]
        ELSE (o[n \div 2] + o[n \div 2 + 1]) \div 2

\* Timestamp + Timedelta; NaT stays NaT.
AddSeconds(ts, secs) == IF ts.null THEN Null ELSE Val(ts.v + secs)

\* Timestamp - Timestamp in seconds, NaN if either is NaT.
SubSeconds(a, b) == IF a.null \/ b.null THEN Null ELSE Val(a.v - b.v)

reconstructed_onset_from_actual(ok, actual, scheduled, audio_latency) ==
    IF ok THEN actual ELSE AddSeconds(actual, audio_latency)

\* np.where(onset_ok, actual, scheduled + latency), one row.
reconstructed_onset(ok, actual, scheduled, audio_latency) ==
    IF ok THEN actual ELSE AddSeconds(scheduled, audio_latency)

\* The columns reconstruct_rt_csv adds, in the order it adds them.
NEW_COLS_ORDER ==
    <<"actual_onset_timestamp_utc_reconstructed", "RT_seconds_reconstructed",
      "onset_reconstructed", "audio_latency_s_used">>

NEW_COLS == {NEW_COLS_ORDER[i] : i \in 1..Len(NEW_COLS_ORDER)}

\* reconstruct_rt_csv(df), on the rows of df: [status |-> "raised"] when no
\* onset is valid, else the rows with the three timestamp columns parsed
\* and the four columns added, every other column kept.
reconstruct_rt_csv(d) ==
    LET n == Len(d)
        sched == [i \in 1..n |-> to_datetime(d[i].scheduled_timestamp_utc)]
        actual == [i \in 1..n |-> to_datetime(d[i].actual_onset_timestamp_utc)]
        resp == [i \in 1..n |-> to_datetime(d[i].response_timestamp_utc)]
        delta == [i \in 1..n |-> onset_delta(actual[i], sched[i])]
        ok == [i \in 1..n |-> onset_ok(delta[i])]
    IN  IF \A i \in 1..n : ~ok[i]
        THEN [status |-> "raised", rows |-> <<>>]
        ELSE LET audio_latency ==
                     median(Compress([i \in 1..n |-> delta[i].v], ok))
                 onset(i) ==
                     reconstructed_onset(ok[i], actual[i], sched[i], audio_latency)
                 row(i) ==
                     [c \in DOMAIN d[i] \cup NEW_COLS |->
                        CASE c = "scheduled_timestamp_utc" -> sched[i]
                          [] c = "actual_onset_timestamp_utc" -> actual[i]
                          [] c = "response_timestamp_utc" -> resp[i]
                          [] c = "actual_onset_timestamp_utc_reconstructed" -> onset(i)
                          [] c = "RT_seconds_reconstructed" ->
                                 SubSeconds(resp[i], onset(i))
                          [] c = "onset_reconstructed" -> ~ok[i]
                          [] c = "audio_latency_s_used" -> audio_latency
                          [] OTHER -> d[i][c]]
             IN  [status |-> "returned", rows |-> [i \in 1..n |-> row(i)]]

\* The input cells the model draws a batch from.
ScheduledCells == {NullCell, BadCell, TsCell(10)}
ActualCells == {NullCell, BadCell, TsCell(8), TsCell(10), TsCell(12), TsCell(14)}
ResponseCells == {TsCell(16)}

RawEvents ==
    [scheduled_timestamp_utc : ScheduledCells,
     actual_onset_timestamp_utc : ActualCells,
     response_timestamp_utc : ResponseCells]

Batches == UNION {[1..n -> RawEvents] : n \in 0..MaxEvents}

Pending == [status |-> "pending", rows |-> <<>>]

\* One call of reconstruct_rt_csv that raises ValueError.
ReconstructRaises ==
    /\ recon.status = "pending"
    /\ reconstruct_rt_csv(df).status = "raised"
    /\ recon' = reconstruct_rt_csv(df)
    /\ UNCHANGED <<df, phaseVars, batchVars, mergeVars>>

\* One call of reconstruct_rt_csv that returns the reconciled table.
ReconstructReturns ==
    /\ recon.status = "pending"
    /\ reconstruct_rt_csv(df).status = "returned"
    /\ recon' = reconstruct_rt_csv(df)
    /\ UNCHANGED <<df, phaseVars, batchVars, mergeVars>>


(***************************************************************************)
(*            process_data.py: compute_belt_phase and its users            *)
(*                                                                         *)
(* A signal is a function on 0..n-1, as the arrays of the source.  Force   *)
(* is counted in units of 1/240, so the prominence 0.5 is 120 units. Phase *)
(* is counted in units of 1/14 degree: a half cycle is 2520 units, which   *)
(* every span of up to ten time units divides, so the interpolated phases  *)
(* are exact.  Belt time is counted in whole units of its own.             *)
(***************************************************************************)
PROMINENCE == 120

UnitsPerDegree == 2 * 7
Degrees(d) == d * UnitsPerDegree
FullCycle == Degrees(360)

Size(a) == Cardinality(DOMAIN a)

MinOf(S) == CHOOSE m \in S : \A y \in S : m <= y
MaxOf(S) == CHOOSE m \in S : \A y \in S : y <= m

Negated(x) == [i \in DOMAIN x |-> -x[i]]

\* scipy.signal.find_peaks, step 1 (_local_maxima_1d): the midpoint of
\* every plateau that is higher than both its neighbours; the first and the
\* last sample are never peaks.
local_maxima(x) ==
    LET n == Size(x)
        plateaus == {lr \in (1..(n - 2)) \X (1..(n - 2)) :
                        /\ lr[1] <= lr[2]
                        /\ x[lr[1] - 1] < x[lr[1]]
                        /\ \A k \in lr[1]..lr[2] : x[k] = x[lr[1]]
                        /\ x[lr[2] + 1] < x[lr[2]]}
    IN  {(lr[1] + lr[2]) \div 2 : lr \in plateaus}

\* scipy.signal.find_peaks, step 2 (_peak_prominences): the peak's height
\* above the higher of the two lowest points reached, on either side,
\* before the signal exceeds the peak.
peak_prominence(x, peak) ==
    LET n == Size(x)
        left == {i \in 0..peak : \A k \in i..peak : x[k] <= x[peak]}
        right == {i \in peak..(n - 1) : \A k \in peak..i : x[k] <= x[peak]}
        left_min == MinOf({x[i] : i \in left})
        right_min == MinOf({x[i] : i \in right})
    IN  x[peak] - (IF left_min > right_min THEN left_min ELSE right_min)

\* find_peaks(x, prominence=0.5)
find_peaks(x) ==
    {p \in local_maxima(x) : peak_prominence(x, p) >= PROMINENCE}

\* np.interp(x, [xa, xb], [fa, fb]) for one x: the end values outside
\* [xa, xb] and at xb (also when xa = xb), linear in between.
np_interp(x, xa, xb, fa, fb) ==
    IF x > xb THEN fb
    ELSE IF x < xa THEN fa
    ELSE IF x >= xb THEN fb
    ELSE IF x = xa THEN fa
    ELSE fa + ((fb - fa) * (x - xa)) \div (xb - xa)

\* The elements of a finite set of numbers in ascending order.
RECURSIVE Ascending(_)
Ascending(S) ==
    IF S = {} THEN <<>>
    ELSE <<MinOf(S)>> \o Ascending(S \ {MinOf(S)})

\* Lines 52-58: for each trough with a later crest, the wrapped ramp from
\* 270 up through 360 to 90 over [trough, first later crest].
RECURSIVE trough_to_crest(_, _, _, _)
trough_to_crest(phase, t, todo, crests) ==
    IF todo = <<>> THEN phase
    ELSE LET tr == Head(todo)
             cs == {c \in crests : c > tr}
             C == MinOf(cs)
             diff == (Degrees(90) - Degrees(270)) % FullCycle
             ramp == [k \in DOMAIN phase |->
                        IF tr <= k /\ k <= C
                        THEN (Degrees(270)
                              + np_interp(t[k], t[tr], t[C], 0, diff)) % FullCycle
                        ELSE phase[k]]
         IN  IF cs = {} THEN trough_to_crest(phase, t, Tail(todo), crests)
             ELSE trough_to_crest(ramp, t, Tail(todo), crests)

\* Lines 61-66: for each crest with a later trough, the ramp from 90 to 270
\* over [crest, first later trough].
RECURSIVE crest_to_trough(_, _, _, _)
crest_to_trough(phase, t, todo, troughs) ==
    IF todo = <<>> THEN phase
    ELSE LET C == Head(todo)
             ts == {tr \in troughs : tr > C}
             T == MinOf(ts)
             ramp == [k \in DOMAIN phase |->
                        IF C <= k /\ k <= T
                        THEN np_interp(t[k], t[C], t[T], Degrees(90), Degrees(270))
                        ELSE phase[k]]
         IN  IF ts = {} THEN crest_to_trough(phase, t, Tail(todo), troughs)
             ELSE crest_to_trough(ramp, t, Tail(todo), troughs)

\* Lines 69-78: the samples before the first change of phase get the phase
\* there less a half cycle; the samples from the last change of phase on
\* (phase[last_def:], the sample at last_def included) get the phase there
\* plus a half cycle.
fill_edges(phase, t) ==
    LET n == Size(phase)
        nz == {i \in 0..(n - 2) : phase[i + 1] - phase[i] # 0}
        first_def == MinOf(nz)
        last_def == MaxOf(nz)
        head == [k \in DOMAIN phase |->
                   IF k < first_def
                   THEN np_interp(t[k], t[first_def], t[first_def],
                                  (phase[first_def] - Degrees(180)) % FullCycle,
                                  phase[first_def])
                   ELSE phase[k]]
    IN  IF nz = {} THEN phase
        ELSE [k \in DOMAIN phase |->
                IF k >= last_def
                THEN np_interp(t[k], t[last_def], t[last_def],
                               head[last_def],
                               (head[last_def] + Degrees(180)) % FullCycle)
                ELSE head[k]]

compute_belt_phase(t, x) ==
    LET troughs == find_peaks(Negated(x))
        crests == find_peaks(x)
        zeros == [k \in DOMAIN x |-> 0]
        up == trough_to_crest(zeros, t, Ascending(troughs), crests)
        down == crest_to_trough(up, t, Ascending(crests), troughs)
        filled == fill_edges(down, t)
    IN  [k \in DOMAIN x |-> filled[k] % FullCycle]

label_of_gt(deg) ==
    IF deg > Degrees(270) \/ deg <= Degrees(90)
    THEN "inhalation" ELSE "exhalation"

\* np.where((deg >= 270) | (deg <= 90), 'inhalation', 'exhalation')
label_of(deg) ==
    IF deg >= Degrees(270) \/ deg <= Degrees(90)
    THEN "inhalation" ELSE "exhalation"

phase_interp_previous(t, y, x_new) ==
    LET n == Size(t)
        idx == Cardinality({k \in 0..(n - 2) : t[k + 1] <= x_new})
    IN  y[idx]

\* interp1d(t, y, kind='nearest', fill_value='extrapolate')(x_new): the
\* index is the number of midpoints between neighbouring samples that lie
\* strictly below x_new (searchsorted, side='left'), so a tie goes to the
\* earlier sample and a time outside the range to the boundary sample.
phase_interp(t, y, x_new) ==
    LET n == Size(t)
        idx == Cardinality({k \in 0..(n - 2) : t[k] + t[k + 1] < 2 * x_new})
    IN  y[idx]

\* The belt signals of the model: up to MaxSamples samples, the force on
\* three levels, the sample times ascending in steps of two units with at
\* most one step of four units.
ForceLevels == {0, 60, 120}

SampleTimes(n) ==
    {[k \in 0..(n - 1) |-> IF k > g THEN 2 * k + 2 ELSE 2 * k] :
        g \in 0..(n - 1)}

NoArray == [k \in {} |-> 0]

\* Lines 116-117: the belt's phase and label columns.
ComputeBeltPhase ==
    /\ ppc = "start"
    /\ phase_deg' = compute_belt_phase(belt_t, belt_x)
    /\ phase_label' = [k \in DOMAIN belt_x |->
                         label_of(compute_belt_phase(belt_t, belt_x)[k])]
    /\ ppc' = "phased"
    /\ UNCHANGED <<belt_t, belt_x, response_ts_sec, resp_phase_deg,
                   resp_phase_label, reconVars, batchVars, mergeVars>>

\* Lines 120-122: the phase and label of one RT event, whose response time
\* may lie before, within or after the belt recording.
MapEvent ==
    /\ ppc = "phased"
    /\ Size(belt_t) > 0
    /\ \E e \in -1..(belt_t[Size(belt_t) - 1] + 1) :
          /\ response_ts_sec' = e
          /\ resp_phase_deg' = phase_interp(belt_t, phase_deg, e)
          /\ resp_phase_label' = label_of(phase_interp(belt_t, phase_deg, e))
    /\ ppc' = "mapped"
    /\ UNCHANGED <<belt_t, belt_x, phase_deg, phase_label, reconVars,
                   batchVars, mergeVars>>

NextPhase == ComputeBeltPhase \/ MapEvent

(***************************************************************************)
(*      recon.py: batch_reconstruct;  csv_processor.py: process_csv, main  *)
(*                                                                         *)
(* A directory maps the file names 1..MaxFiles, in sorted order, to a CSV  *)
(* file or to NoFile.  A CSV file is its column names in order and its     *)
(* rows, each a function from the column names to cells.                   *)
(***************************************************************************)
FileNames == 1..MaxFiles

NoFile == [exists |-> FALSE, columns |-> <<>>, rows |-> <<>>]
CsvFile(cols, rows) == [exists |-> TRUE, columns |-> cols, rows |-> rows]

RAW_COLUMNS ==
    <<"trial", "side", "scheduled_timestamp_utc", "actual_onset_timestamp_utc",
      "response_timestamp_utc", "RT_seconds">>

RawRow(trial, scheduled, actual) ==
    [trial |-> trial, side |-> "left",
     scheduled_timestamp_utc |-> scheduled,
     actual_onset_timestamp_utc |-> actual,
     response_timestamp_utc |-> TsCell(16),
     RT_seconds |-> Val(16 - 10)]

\* A raw RT file with a trustworthy onset and a missing one.
GoodFile ==
    CsvFile(RAW_COLUMNS, <<RawRow(1, TsCell(10), TsCell(12)),
                           RawRow(2, TsCell(10), NullCell)>>)

\* A raw RT file none of whose onsets is within the deviation limit.
NoValidFile ==
    CsvFile(RAW_COLUMNS, <<RawRow(1, TsCell(10), TsCell(14)),
                           RawRow(2, TsCell(10), BadCell)>>)

Elements(seq) == {seq[i] : i \in 1..Len(seq)}

\* df[name] = ... for each new column: a new name goes to the end.
RECURSIVE with_columns(_, _)
with_columns(cols, new) ==
    IF new = <<>> THEN cols
    ELSE with_columns(IF Head(new) \in Elements(cols) THEN cols
                      ELSE Append(cols, Head(new)),
                      Tail(new))

\* Lines 79-83 of recon.py: read, reconstruct, and the file to write.
reconstructed_file(f) ==
    LET r == reconstruct_rt_csv(f.rows)
    IN  [status |-> r.status,
         file |-> IF r.status = "returned"
                  THEN CsvFile(with_columns(f.columns, NEW_COLS_ORDER), r.rows)
                  ELSE NoFile]

DELETE_COLS ==
    {"scheduled_timestamp_utc", "actual_onset_timestamp_utc",
     "response_timestamp_utc", "RT_seconds", "scheduled_offset_s",
     "actual_onset_offset_s", "response_offset_s", "onset_reconstructed",
     "audio_latency_s_used"}

rename_map(c) ==
    CASE c = "actual_onset_timestamp_utc_reconstructed" -> "utc_timestamp"
      [] c = "RT_seconds_reconstructed" -> "RT_seconds"
      [] OTHER -> c

NotDeleted(c) == c \notin DELETE_COLS
NotCanonical(c) == c \notin {"utc_timestamp", "RT_seconds"}

\* process_csv(path) on the file read: raises ValueError when a canonical
\* column is missing after the rename, else gives the file it writes back.
process_csv(f) ==
    LET kept == SelectSeq(f.columns, NotDeleted)
        cols == [i \in 1..Len(kept) |-> rename_map(kept[i])]
        rest == SelectSeq(cols, NotCanonical)
        new_cols == SubSeq(rest, 1, IF Len(rest) < 2 THEN Len(rest) ELSE 2)
                    \o <<"utc_timestamp", "RT_seconds">>
                    \o SubSeq(rest, 3, Len(rest))
        old_name(c) == CHOOSE k \in Elements(kept) : rename_map(k) = c
    IN  IF \E r \in {"utc_timestamp", "RT_seconds"} : r \notin Elements(cols)
        THEN [status |-> "raised", file |-> f]
        ELSE [status |-> "written",
              file |-> CsvFile(new_cols,
                          [i \in 1..Len(f.rows) |->
                             [c \in Elements(new_cols) |-> f.rows[i][old_name(c)]]])]

\* A file left in data/reconstructed by an earlier run of both drivers.
ProcessedFile == process_csv(reconstructed_file(GoodFile).file).file

\* The next file of a sorted listing after name f; 0 when f was the last.
NextFile(dir, f) ==
    IF \E g \in FileNames : g > f /\ dir[g].exists
    THEN MinOf({g \in FileNames : g > f /\ dir[g].exists})
    ELSE 0

recon_except_break(dir, f) == 0

\* Lines 85-87 of recon.py: the handler prints and the loop goes on.
recon_except(dir, f) == NextFile(dir, f)

\* Lines 69-73 of recon.py: list the input files; none is an error.
BatchReconstructStart ==
    /\ bpc = "recon_start"
    /\ csv_path' = NextFile(input_dir, 0)
    /\ bpc' = IF NextFile(input_dir, 0) = 0 THEN "recon_raised" ELSE "recon_loop"
    /\ UNCHANGED <<input_dir, output_dir, recon_log, csv_log, reconVars, phaseVars, mergeVars>>

\* Lines 75-83 of recon.py: one file reconstructed and written.
BatchReconstructWrite ==
    /\ bpc = "recon_loop"
    /\ reconstructed_file(input_dir[csv_path]).status = "returned"
    /\ output_dir' = [output_dir EXCEPT
                        ![csv_path] = reconstructed_file(input_dir[csv_path]).file]
    /\ recon_log' = [recon_log EXCEPT ![csv_path] = "written"]
    /\ csv_path' = NextFile(input_dir, csv_path)
    /\ bpc' = IF NextFile(input_dir, csv_path) = 0
              THEN "recon_complete" ELSE "recon_loop"
    /\ UNCHANGED <<input_dir, csv_log, reconVars, phaseVars, mergeVars>>

\* Lines 75-87 of recon.py: reconstruct_rt_csv raises, the handler reports.
BatchReconstructExcept ==
    /\ bpc = "recon_loop"
    /\ reconstructed_file(input_dir[csv_path]).status = "raised"
    /\ recon_log' = [recon_log EXCEPT ![csv_path] = "failed"]
    /\ csv_path' = recon_except(input_dir, csv_path)
    /\ bpc' = IF recon_except(input_dir, csv_path) = 0
              THEN "recon_complete" ELSE "recon_loop"
    /\ UNCHANGED <<input_dir, output_dir, csv_log, reconVars, phaseVars, mergeVars>>

\* Lines 61-64 of csv_processor.py, run after batch_reconstruct has ended.
CsvMainStart ==
    /\ bpc \in {"recon_complete", "recon_raised"}
    /\ csv_path' = NextFile(output_dir, 0)
    /\ bpc' = IF NextFile(output_dir, 0) = 0 THEN "csv_complete" ELSE "csv_loop"
    /\ UNCHANGED <<input_dir, output_dir, recon_log, csv_log, reconVars, phaseVars, mergeVars>>

\* Lines 66-68 of csv_processor.py: one file processed and written back.
CsvMainProcessed ==
    /\ bpc = "csv_loop"
    /\ process_csv(output_dir[csv_path]).status = "written"
    /\ output_dir' = [output_dir EXCEPT
                        ![csv_path] = process_csv(output_dir[csv_path]).file]
    /\ csv_log' = [csv_log EXCEPT ![csv_path] = "processed"]
    /\ csv_path' = NextFile(output_dir, csv_path)
    /\ bpc' = IF NextFile(output_dir, csv_path) = 0
              THEN "csv_complete" ELSE "csv_loop"
    /\ UNCHANGED <<input_dir, recon_log, reconVars, phaseVars, mergeVars>>

\* Lines 66-70 of csv_processor.py: process_csv raises, the handler reports.
CsvMainExcept ==
    /\ bpc = "csv_loop"
    /\ process_csv(output_dir[csv_path]).status = "raised"
    /\ csv_log' = [csv_log EXCEPT ![csv_path] = "failed"]
    /\ csv_path' = NextFile(output_dir, csv_path)
    /\ bpc' = IF NextFile(output_dir, csv_path) = 0
              THEN "csv_complete" ELSE "csv_loop"
    /\ UNCHANGED <<input_dir, output_dir, recon_log, reconVars, phaseVars, mergeVars>>

NextBatch ==
    \/ BatchReconstructStart
    \/ BatchReconstructWrite
    \/ BatchReconstructExcept
    \/ CsvMainStart
    \/ CsvMainProcessed
    \/ CsvMainExcept

(***************************************************************************)
(*     process_data.py: the per-participant loop, cleaning and master      *)
(*                                                                         *)
(* Participants are numbered 1..MaxParticipants in the order of            *)
(* get_participant_ids(); every file name f"{pid}_RT_with_phase.csv" is    *)
(* taken to match the pattern "P0*_RT_with_phase.csv".  Belt time and the  *)
(* response time of an event are on one clock.  Force is counted in units  *)
(* of 1/240, raw samples lie on multiples of 60 units, so that the mean of *)
(* up to five of them is a whole number of units.                          *)
(***************************************************************************)
PERFORM_CLEANING == TRUE

\* config.py: the names the module defines.
config ==
    [RAW_DIR |-> "raw", PARTICIPANTS_DIR |-> "participants",
     MERGED_DIR |-> "merged", BELT_SUFFIX |-> "_belt.jsonl",
     RT_SUFFIX |-> "_RT.csv", SMOOTH_WINDOW |-> 5,
     EXPECTED_BREATHS_PER_MIN |-> 16]

participant_ids == 1..MaxParticipants

ArrayOf(seq) == [k \in 0..(Len(seq) - 1) |-> seq[k + 1]]

NoBelt == [exists |-> FALSE, t |-> NoArray, force |-> NoArray]
BeltFile(t, force) == [exists |-> TRUE, t |-> ArrayOf(t), force |-> ArrayOf(force)]

\* A belt file with no record, with one record, with two records of one
\* timestamp, and a recording of two breaths.
EmptyBelt == BeltFile(<<>>, <<>>)
OneSampleBelt == BeltFile(<<4>>, <<60>>)
ZeroDurationBelt == BeltFile(<<4, 4>>, <<60, 120>>)
GoodBelt ==
    BeltFile(<<0, 2, 4, 6, 8, 10, 12, 14, 16, 18, 20, 22, 24, 26, 28>>,
             <<480, 480, 0, 0, 0, 480, 480, 480, 480, 480, 0, 0, 0, 480, 480>>)

RtRow(trial, actual, response) ==
    [RawRow(trial, TsCell(10), actual) EXCEPT
        !.response_timestamp_utc = TsCell(response)]

\* An RT file whose second event has no actual onset and was answered
\* after the belt recording ended.
RtFile == CsvFile(RAW_COLUMNS, <<RtRow(1, TsCell(12), 7), RtRow(2, NullCell, 40)>>)

RECURSIVE SumRange(_, _, _)
SumRange(x, lo, hi) == IF lo > hi THEN 0 ELSE x[lo] + SumRange(x, lo + 1, hi)

\* Line 109: rolling(window, center=True, min_periods=1).mean()
rolling_mean(x) ==
    LET n == Size(x)
        half == (config.SMOOTH_WINDOW - 1) \div 2
        lo(i) == IF i - half < 0 THEN 0 ELSE i - half
        hi(i) == IF i + half > n - 1 THEN n - 1 ELSE i + half
    IN  [i \in DOMAIN x |-> SumRange(x, lo(i), hi(i)) \div (hi(i) - lo(i) + 1)]

\* estimate_peak_distance(belt): n / 0 is inf in numpy and int(inf) raises
\* OverflowError; otherwise int(0.7 * (n / duration) / (breaths / 60)).
estimate_peak_distance(belt) ==
    LET n == Size(belt.t)
        duration_sec == belt.t[n - 1] - belt.t[0]
        den == Abs(duration_sec) * config.EXPECTED_BREATHS_PER_MIN
        q == (42 * n) \div den
    IN  IF duration_sec = 0 THEN [status |-> "OverflowError", v |-> 0]
        ELSE [status |-> "ok", v |-> IF duration_sec < 0 THEN -q ELSE q]

\* Lines 107-112: what the belt of one participant raises, if anything.
\* A file without records gives a frame without columns (KeyError: 'force').
belt_error(belt) ==
    IF Size(belt.t) = 0 THEN "KeyError"
    ELSE IF estimate_peak_distance(belt).status # "ok"
         THEN estimate_peak_distance(belt).status
         ELSE "none"

MERGE_COLS == <<"response_ts_sec", "resp_phase_deg", "resp_phase_label">>

\* Lines 99-122: the RT table with the three columns the loop adds.
rt_with_phase(rt, belt) ==
    LET force_smooth == rolling_mean(belt.force)
        deg == compute_belt_phase(belt.t, force_smooth)
        ts(i) == rt.rows[i].response_timestamp_utc.v
        row(i) ==
            [c \in DOMAIN rt.rows[i] \cup Elements(MERGE_COLS) |->
                CASE c = "response_ts_sec" -> ts(i)
                  [] c = "resp_phase_deg" -> phase_interp(belt.t, deg, ts(i))
                  [] c = "resp_phase_label" ->
                        label_of(phase_interp(belt.t, deg, ts(i)))
                  [] OTHER -> rt.rows[i][c]]
    IN  CsvFile(with_columns(rt.columns, MERGE_COLS),
                [i \in 1..Len(rt.rows) |-> row(i)])

\* df['participant_id'] = pid
with_participant_id(f, p) ==
    CsvFile(with_columns(f.columns, <<"participant_id">>),
            [i \in 1..Len(f.rows) |->
                [c \in DOMAIN f.rows[i] \cup {"participant_id"} |->
                    IF c = "participant_id" THEN p ELSE f.rows[i][c]]])

\* A per-participant file left in the merged directory by an earlier run.
StaleMerged == rt_with_phase(RtFile, GoodBelt)

\* The state the loop is left in: the cleaning step or the end of the script.
after_loop == IF PERFORM_CLEANING THEN "cleaning" ELSE "complete"
loop_pc(p) == IF p > MaxParticipants THEN after_loop ELSE "loop"

\* Lines 98 and 106: continue, the loop goes on with the next participant.
skip_continue(p) == p + 1

\* Lines 95-98: no RT file for pid.
LoopRTNotFound ==
    /\ mpc = "loop"
    /\ ~raw_dir[pid].rt.exists
    /\ merge_log' = [merge_log EXCEPT ![pid] = "rt_not_found"]
    /\ pid' = skip_continue(pid)
    /\ mpc' = loop_pc(skip_continue(pid))
    /\ UNCHANGED <<raw_dir, merged_dir, clean_dir, clean_log, all_participants,
                   master, merge_error, distance, reconVars, phaseVars,
                   batchVars>>

\* Lines 95-106: an RT file but no belt file for pid.
LoopBeltNotFound ==
    /\ mpc = "loop"
    /\ raw_dir[pid].rt.exists
    /\ ~raw_dir[pid].belt.exists
    /\ merge_log' = [merge_log EXCEPT ![pid] = "belt_not_found"]
    /\ pid' = skip_continue(pid)
    /\ mpc' = loop_pc(skip_continue(pid))
    /\ UNCHANGED <<raw_dir, merged_dir, clean_dir, clean_log, all_participants,
                   master, merge_error, distance, reconVars, phaseVars,
                   batchVars>>

\* Lines 95-112: the belt raises at line 109 or in estimate_peak_distance;
\* nothing in the script catches it, so the script ends there.
LoopBeltRaises ==
    /\ mpc = "loop"
    /\ raw_dir[pid].rt.exists
    /\ raw_dir[pid].belt.exists
    /\ belt_error(raw_dir[pid].belt) # "none"
    /\ merge_log' = [merge_log EXCEPT ![pid] = "raised"]
    /\ merge_error' = belt_error(raw_dir[pid].belt)
    /\ mpc' = "terminated"
    /\ UNCHANGED <<raw_dir, merged_dir, clean_dir, clean_log, all_participants,
                   master, pid, distance, reconVars, phaseVars, batchVars>>

\* Lines 95-130: the participant's table is computed, saved over any file
\* of that name and appended to all_participants.
LoopMerged ==
    /\ mpc = "loop"
    /\ raw_dir[pid].rt.exists
    /\ raw_dir[pid].belt.exists
    /\ belt_error(raw_dir[pid].belt) = "none"
    /\ distance' = estimate_peak_distance(raw_dir[pid].belt).v
    /\ merged_dir' = [merged_dir EXCEPT
                        ![pid] = rt_with_phase(raw_dir[pid].rt, raw_dir[pid].belt)]
    /\ all_participants' =
          Append(all_participants,
                 with_participant_id(
                     rt_with_phase(raw_dir[pid].rt, raw_dir[pid].belt), pid))
    /\ merge_log' = [merge_log EXCEPT ![pid] = "merged"]
    /\ pid' = pid + 1
    /\ mpc' = loop_pc(pid + 1)
    /\ UNCHANGED <<raw_dir, clean_dir, clean_log, master, merge_error,
                   reconVars, phaseVars, batchVars>>

\* df.isna() of one cell, by column: an empty timestamp cell or a NaN.
isna(row, c) ==
    CASE c \in {"scheduled_timestamp_utc", "actual_onset_timestamp_utc",
                "response_timestamp_utc"} -> row[c].kind = "null"
      [] c = "RT_seconds" -> row[c].null
      [] OTHER -> FALSE

HasNa(row) == \E c \in DOMAIN row : isna(row, c)
NoNa(row) == ~HasNa(row)

\* Lines 155-166: the rows dropped and the cleaned table of one file.
nan_rows(f) == SelectSeq(f.rows, HasNa)
df_clean(f, p) ==
    LET kept == CsvFile(f.columns, SelectSeq(f.rows, NoNa))
    IN  IF "participant_id" \in Elements(f.columns) THEN kept
        ELSE with_participant_id(kept, p)

\* Line 142: the files of the merged directory that match the pattern.
csv_files == {p \in participant_ids : merged_dir[p].exists}

\* Lines 179-192: pd.concat of the cleaned files, in sorted order.
RECURSIVE concat(_, _)
concat(dir, todo) ==
    IF todo = <<>> THEN CsvFile(<<>>, <<>>)
    ELSE LET rest == concat(dir, Tail(todo))
             f == dir[Head(todo)]
         IN  CsvFile(with_columns(f.columns, rest.columns), f.rows \o rest.rows)

\* Lines 201-203: clean_and_create_master raises AttributeError at line 136
\* when config has no CLEAN_DIR; else every matching file is cleaned and
\* the cleaned files are concatenated into the master.
CleanAndCreateMaster ==
    /\ mpc = "cleaning"
    /\ IF "CLEAN_DIR" \notin DOMAIN config
       THEN /\ merge_error' = "AttributeError"
            /\ mpc' = "terminated"
            /\ UNCHANGED <<clean_dir, clean_log, master>>
       ELSE /\ clean_dir' = [p \in participant_ids |->
                               IF p \in csv_files THEN df_clean(merged_dir[p], p)
                               ELSE clean_dir[p]]
            /\ clean_log' = [p \in participant_ids |->
                               IF p \in csv_files
                               THEN Len(nan_rows(merged_dir[p])) ELSE -1]
            /\ master' = IF csv_files = {} THEN master
                         ELSE concat([p \in participant_ids |->
                                        df_clean(merged_dir[p], p)],
                                     Ascending(csv_files))
            /\ mpc' = "complete"
            /\ UNCHANGED merge_error
    /\ UNCHANGED <<raw_dir, merged_dir, all_participants, pid, merge_log,
                   distance, reconVars, phaseVars, batchVars>>

NextMerge ==
    \/ LoopRTNotFound
    \/ LoopBeltNotFound
    \/ LoopBeltRaises
    \/ LoopMerged
    \/ CleanAndCreateMaster

(***************************************************************************)
(*                             Specifications                              *)
(***************************************************************************)
\* reconstruct_rt_csv on every batch of up to MaxEvents events.
InitRecon ==
    /\ df \in Batches
    /\ recon = Pending
    /\ belt_t = NoArray
    /\ belt_x = NoArray
    /\ phase_deg = NoArray
    /\ phase_label = NoArray
    /\ response_ts_sec = 0
    /\ resp_phase_deg = 0
    /\ resp_phase_label = "none"
    /\ ppc = "idle"
    /\ input_dir = [f \in FileNames |-> NoFile]
    /\ output_dir = [f \in FileNames |-> NoFile]
    /\ bpc = "idle"
    /\ csv_path = 0
    /\ recon_log = [f \in FileNames |-> "none"]
    /\ csv_log = [f \in FileNames |-> "none"]
    /\ raw_dir = [p \in participant_ids |-> [rt |-> NoFile, belt |-> NoBelt]]
    /\ merged_dir = [p \in participant_ids |-> NoFile]
    /\ clean_dir = [p \in participant_ids |-> NoFile]
    /\ clean_log = [p \in participant_ids |-> -1]
    /\ all_participants = <<>>
    /\ master = NoFile
    /\ mpc = "idle"
    /\ pid = 0
    /\ merge_log = [p \in participant_ids |-> "none"]
    /\ merge_error = "none"
    /\ distance = 0

NextRecon == ReconstructRaises \/ ReconstructReturns

SpecRecon == InitRecon /\ [][NextRecon]_vars

\* compute_belt_phase and phase_interp on every belt signal of the model.
InitPhase ==
    /\ \E n \in 0..MaxSamples :
          /\ belt_t \in SampleTimes(n)
          /\ belt_x \in [0..(n - 1) -> ForceLevels]
    /\ phase_deg = NoArray
    /\ phase_label = NoArray
    /\ response_ts_sec = 0
    /\ resp_phase_deg = 0
    /\ resp_phase_label = "none"
    /\ ppc = "start"
    /\ df = <<>>
    /\ recon = Pending
    /\ input_dir = [f \in FileNames |-> NoFile]
    /\ output_dir = [f \in FileNames |-> NoFile]
    /\ bpc = "idle"
    /\ csv_path = 0
    /\ recon_log = [f \in FileNames |-> "none"]
    /\ csv_log = [f \in FileNames |-> "none"]
    /\ raw_dir = [p \in participant_ids |-> [rt |-> NoFile, belt |-> NoBelt]]
    /\ merged_dir = [p \in participant_ids |-> NoFile]
    /\ clean_dir = [p \in participant_ids |-> NoFile]
    /\ clean_log = [p \in participant_ids |-> -1]
    /\ all_participants = <<>>
    /\ master = NoFile
    /\ mpc = "idle"
    /\ pid = 0
    /\ merge_log = [p \in participant_ids |-> "none"]
    /\ merge_error = "none"
    /\ distance = 0

SpecPhase == InitPhase /\ [][NextPhase]_vars

\* Both drivers over every choice of raw files, with data/reconstructed
\* empty or holding files of an earlier run.
InitBatch ==
    /\ input_dir \in [FileNames -> {NoFile, GoodFile, NoValidFile}]
    /\ output_dir \in [FileNames -> {NoFile, ProcessedFile}]
    /\ bpc = "recon_start"
    /\ csv_path = 0
    /\ recon_log = [f \in FileNames |-> "none"]
    /\ csv_log = [f \in FileNames |-> "none"]
    /\ df = <<>>
    /\ recon = Pending
    /\ belt_t = NoArray
    /\ belt_x = NoArray
    /\ phase_deg = NoArray
    /\ phase_label = NoArray
    /\ response_ts_sec = 0
    /\ resp_phase_deg = 0
    /\ resp_phase_label = "none"
    /\ ppc = "idle"
    /\ raw_dir = [p \in participant_ids |-> [rt |-> NoFile, belt |-> NoBelt]]
    /\ merged_dir = [p \in participant_ids |-> NoFile]
    /\ clean_dir = [p \in participant_ids |-> NoFile]
    /\ clean_log = [p \in participant_ids |-> -1]
    /\ all_participants = <<>>
    /\ master = NoFile
    /\ mpc = "idle"
    /\ pid = 0
    /\ merge_log = [p \in participant_ids |-> "none"]
    /\ merge_error = "none"
    /\ distance = 0

SpecBatch == InitBatch /\ [][NextBatch]_vars

\* The loop and the cleaning step over every choice of raw files, with the
\* merged directory empty or holding the files of an earlier run.
InitMerge ==
    /\ raw_dir \in [participant_ids ->
                       [rt : {NoFile, RtFile},
                        belt : {NoBelt, EmptyBelt, OneSampleBelt,
                                ZeroDurationBelt, GoodBelt}]]
    /\ merged_dir \in {[p \in participant_ids |-> NoFile],
                       [p \in participant_ids |-> StaleMerged]}
    /\ clean_dir = [p \in participant_ids |-> NoFile]
    /\ clean_log = [p \in participant_ids |-> -1]
    /\ all_participants = <<>>
    /\ master = NoFile
    /\ mpc = "loop"
    /\ pid = 1
    /\ merge_log = [p \in participant_ids |-> "none"]
    /\ merge_error = "none"
    /\ distance = 0
    /\ df = <<>>
    /\ recon = Pending
    /\ belt_t = NoArray
    /\ belt_x = NoArray
    /\ phase_deg = NoArray
    /\ phase_label = NoArray
    /\ response_ts_sec = 0
    /\ resp_phase_deg = 0
    /\ resp_phase_label = "none"
    /\ ppc = "idle"
    /\ input_dir = [f \in FileNames |-> NoFile]
    /\ output_dir = [f \in FileNames |-> NoFile]
    /\ bpc = "idle"
    /\ csv_path = 0
    /\ recon_log = [f \in FileNames |-> "none"]
    /\ csv_log = [f \in FileNames |-> "none"]

SpecMerge == InitMerge /\ [][NextMerge]_vars

(***************************************************************************)
(* Properties of reconstruct_rt_csv, stated on the raw batch.              *)
(***************************************************************************)
\* The events whose onset is valid: both cells are timestamps less than
\* MAX_ONSET_DEVIATION apart.
ValidEvents ==
    {i \in 1..Len(df) :
        /\ df[i].actual_onset_timestamp_utc.kind = "ts"
        /\ df[i].scheduled_timestamp_utc.kind = "ts"
        /\ Abs(df[i].actual_onset_timestamp_utc.v
               - df[i].scheduled_timestamp_utc.v) < MAX_ONSET_DEVIATION}

RawDelta(i) ==
    df[i].actual_onset_timestamp_utc.v - df[i].scheduled_timestamp_utc.v

\* The k-th smallest onset delta of the valid events, by rank.
RankedDelta(k) ==
    LET atLeastK == {RawDelta(i) : i \in
                       {j \in ValidEvents :
                          Cardinality({h \in ValidEvents :
                                         RawDelta(h) <= RawDelta(j)}) >= k}}
    IN  CHOOSE x \in atLeastK : \A y \in atLeastK : x <= y

\* Twice the median of the valid onset deltas.
TwiceMedianDelta ==
    LET n == Cardinality(ValidEvents)
    IN  RankedDelta((n + 1) \div 2) + RankedDelta(n \div 2 + 1)

\* C1: on a batch for which reconstruct_rt_csv returns, a valid-onset event
\* keeps its actual onset and is not flagged; any other event is flagged and
\* gets scheduled time plus the median onset delta of the batch's valid
\* events (no instant when the scheduled time itself is null), and the
\* latency column holds that median.
C1_ReconstructedOnset ==
    recon.status = "returned" =>
        /\ Len(recon.rows) = Len(df)
        /\ \A i \in 1..Len(df) :
              LET row == recon.rows[i]
                  out == row.actual_onset_timestamp_utc_reconstructed
                  sch == df[i].scheduled_timestamp_utc
              IN  /\ 2 * row.audio_latency_s_used = TwiceMedianDelta
                  /\ IF i \in ValidEvents
                     THEN /\ out = Val(df[i].actual_onset_timestamp_utc.v)
                          /\ row.onset_reconstructed = FALSE
                     ELSE /\ row.onset_reconstructed = TRUE
                          /\ IF sch.kind = "ts"
                             THEN /\ ~out.null
                                  /\ 2 * (out.v - sch.v) = TwiceMedianDelta
                             ELSE out.null

\* Two valid events with different deltas (the median is their mean) and an
\* invalid event whose onset is rebuilt from its scheduled time.
C1_Witness ==
    /\ recon.status = "returned"
    /\ Cardinality(ValidEvents) = 2
    /\ \E i, j \in ValidEvents : RawDelta(i) < RawDelta(j)
    /\ \E i \in 1..Len(df) :
          /\ i \notin ValidEvents
          /\ df[i].scheduled_timestamp_utc.kind = "ts"
          /\ ~recon.rows[i].actual_onset_timestamp_utc_reconstructed.null

\* C2: reconstruct_rt_csv raises exactly when the batch has no valid-onset
\* event, and a raising call leaves no reconciled table.
C2_RaisesIffNoValidOnset ==
    recon.status # "pending" =>
        /\ recon.status = "raised" <=> ValidEvents = {}
        /\ recon.status = "raised" => recon.rows = <<>>

\* A raising call on a batch that does hold a parsed delta, exactly at the
\* deviation limit.
C2_Witness ==
    /\ recon.status = "raised"
    /\ \E i \in 1..Len(df) :
          /\ df[i].actual_onset_timestamp_utc.kind = "ts"
          /\ df[i].scheduled_timestamp_utc.kind = "ts"
          /\ Abs(RawDelta(i)) = MAX_ONSET_DEVIATION

\* C9 as stated: on a batch for which reconstruct_rt_csv returns, every
\* event has a non-null reconstructed onset.
C9_AlwaysPresent ==
    recon.status = "returned" =>
        \A i \in 1..Len(df) :
            ~recon.rows[i].actual_onset_timestamp_utc_reconstructed.null

\* C9 amended: on a batch for which reconstruct_rt_csv returns, an event has
\* a non-null reconstructed onset exactly when its scheduled timestamp
\* parsed, whatever its actual onset holds.
C9_PresentIffScheduledParsed ==
    recon.status = "returned" =>
        \A i \in 1..Len(df) :
            recon.rows[i].actual_onset_timestamp_utc_reconstructed.null
                <=> df[i].scheduled_timestamp_utc.kind # "ts"

\* A returned batch with an event rebuilt although its actual onset is null
\* or unparseable, and an event without a scheduled time.
C9_Witness ==
    /\ recon.status = "returned"
    /\ \E i \in 1..Len(df) :
          /\ df[i].scheduled_timestamp_utc.kind = "ts"
          /\ df[i].actual_onset_timestamp_utc.kind # "ts"
          /\ ~recon.rows[i].actual_onset_timestamp_utc_reconstructed.null
    /\ \E i \in 1..Len(df) : df[i].scheduled_timestamp_utc.kind # "ts"

(***************************************************************************)
(* Properties of compute_belt_phase, the labels and phase_interp.          *)
(***************************************************************************)
Troughs == find_peaks(Negated(belt_x))
Crests == find_peaks(belt_x)

\* C3: whatever troughs and crests the signal has, every sample's phase
\* lies in [0,360) and its label is 'inhalation' exactly when the phase is
\* in [270,360) or [0,90], else 'exhalation'.
C3_PhaseRangeAndLabel ==
    ppc \in {"phased", "mapped"} =>
        /\ DOMAIN phase_deg = DOMAIN belt_x
        /\ DOMAIN phase_label = DOMAIN belt_x
        /\ \A k \in DOMAIN belt_x :
              /\ 0 <= phase_deg[k] /\ phase_deg[k] < Degrees(360)
              /\ phase_label[k] \in {"inhalation", "exhalation"}
              /\ phase_label[k] = "inhalation" <=>
                    \/ Degrees(270) <= phase_deg[k] /\ phase_deg[k] < Degrees(360)
                    \/ 0 <= phase_deg[k] /\ phase_deg[k] <= Degrees(90)

\* Two extrema of the same kind with none of the other kind between them,
\* samples of both labels, and a sample exactly on a boundary of the
\* inhalation arc.
C3_Witness ==
    /\ ppc = "phased"
    /\ \/ \E a, b \in Troughs : a < b /\ Crests \cap (a..b) = {}
       \/ \E a, b \in Crests : a < b /\ Troughs \cap (a..b) = {}
    /\ \E k \in DOMAIN phase_deg : phase_deg[k] \in {Degrees(90), Degrees(270)}
    /\ \E k \in DOMAIN phase_deg : phase_label[k] = "inhalation"
    /\ \E k \in DOMAIN phase_deg : phase_label[k] = "exhalation"

\* C4: the phase given to an RT event is the phase of a belt sample nearest
\* in time to the response; before the first sample it is the first
\* sample's phase and after the last sample the last sample's.
C4_NearestSamplePhase ==
    ppc = "mapped" =>
        LET n == Size(belt_t)
            e == response_ts_sec
            nearest == {k \in DOMAIN belt_t :
                          \A j \in DOMAIN belt_t :
                              Abs(belt_t[k] - e) <= Abs(belt_t[j] - e)}
        IN  /\ \E k \in nearest : resp_phase_deg = phase_deg[k]
            /\ e < belt_t[0] => resp_phase_deg = phase_deg[0]
            /\ e > belt_t[n - 1] => resp_phase_deg = phase_deg[n - 1]
            /\ resp_phase_label = label_of(resp_phase_deg)

\* An event strictly between two samples of different phase, nearer to the
\* later one, which no blend of the two phases would give.
C4_Witness ==
    /\ ppc = "mapped"
    /\ \E k \in DOMAIN belt_t :
          /\ k + 1 \in DOMAIN belt_t
          /\ belt_t[k] < response_ts_sec
          /\ belt_t[k] + belt_t[k + 1] < 2 * response_ts_sec
          /\ response_ts_sec < belt_t[k + 1]
          /\ phase_deg[k] # phase_deg[k + 1]
          /\ resp_phase_deg = phase_deg[k + 1]

\* A trough is paired when a crest follows it or it is the first trough
\* after some crest; a crest likewise.
PairedTroughs ==
    {tr \in Troughs :
        \/ \E c \in Crests : c > tr
        \/ \E c \in Crests : c < tr /\ \A u \in Troughs : u > c => tr <= u}

PairedCrests ==
    {c \in Crests :
        \/ \E tr \in Troughs : tr > c
        \/ \E tr \in Troughs : tr < c /\ \A u \in Crests : u > tr => c <= u}

\* C10: in the array compute_belt_phase returns, every paired trough has
\* phase 270 and every paired crest has phase 90: the edge fill leaves the
\* extremum samples as they are.
C10_ExtremaKeepTheirPhase ==
    ppc \in {"phased", "mapped"} =>
        /\ \A tr \in PairedTroughs : phase_deg[tr] = Degrees(270)
        /\ \A c \in PairedCrests : phase_deg[c] = Degrees(90)

(***************************************************************************)
(* Properties of the two per-file drivers.                                 *)
(***************************************************************************)
\* The raw file has no event whose two onset cells are timestamps less
\* than MAX_ONSET_DEVIATION apart.
NoValidOnsetIn(f) ==
    \A i \in 1..Len(f.rows) :
        \/ f.rows[i].actual_onset_timestamp_utc.kind # "ts"
        \/ f.rows[i].scheduled_timestamp_utc.kind # "ts"
        \/ Abs(f.rows[i].actual_onset_timestamp_utc.v
               - f.rows[i].scheduled_timestamp_utc.v) >= MAX_ONSET_DEVIATION

\* C8 as stated: a latency-estimation error in batch_reconstruct, or a
\* column-validation error in csv_processor's main, ends the run, so that
\* no file after the failing one is processed.
C8_ErrorTerminatesRun ==
    \A f, g \in FileNames :
        f < g =>
            /\ recon_log[f] = "failed" => recon_log[g] = "none"
            /\ csv_log[f] = "failed" => csv_log[g] = "none"

\* C8 amended: both drivers catch the error in the per-file loop and go on;
\* when a driver has finished, every file of its listing has been handled,
\* the failing ones being exactly those without a valid onset (for
\* batch_reconstruct) and those lacking a canonical column after the rename
\* (for csv_processor), and a file that failed is left as it was.
C8_ErrorCaughtRunContinues ==
    /\ bpc \in {"recon_complete", "csv_loop", "csv_complete"} =>
          \A f \in FileNames :
              input_dir[f].exists =>
                  /\ recon_log[f] \in {"written", "failed"}
                  /\ recon_log[f] = "failed" <=> NoValidOnsetIn(input_dir[f])
    /\ bpc = "csv_complete" =>
          \A f \in FileNames :
              output_dir[f].exists =>
                  /\ csv_log[f] \in {"processed", "failed"}
                  /\ csv_log[f] = "processed" =>
                        SubSeq(output_dir[f].columns, 3, 4)
                            = <<"utc_timestamp", "RT_seconds">>
                  /\ csv_log[f] = "failed" =>
                        /\ "RT_seconds_reconstructed"
                              \notin Elements(output_dir[f].columns)
                        /\ recon_log[f] # "written"

\* Both drivers have finished; in each, a file failed and a later file was
\* handled successfully.
C8_Witness ==
    /\ bpc = "csv_complete"
    /\ \E f, g \in FileNames :
          f < g /\ recon_log[f] = "failed" /\ recon_log[g] = "written"
    /\ \E f, g \in FileNames :
          f < g /\ csv_log[f] = "failed" /\ csv_log[g] = "processed"

(***************************************************************************)
(* Properties of the per-participant loop and the cleaning step.           *)
(***************************************************************************)
\* The loop has dealt with participant p.
Reached(p) == merge_log[p] # "none"

\* The script ended at participant p, inside the loop.
StoppedAt(p) == mpc = "terminated" /\ pid = p /\ merge_log[p] = "raised"

\* The script has left the loop without an error inside it.
LoopPassed == mpc \notin {"loop", "cleaning"} /\ ~\E p \in participant_ids : StoppedAt(p)

Skipped(p) == merge_log[p] \in {"rt_not_found", "belt_not_found"}

\* A belt of fewer than two samples or of zero duration.
Degenerate(belt) ==
    \/ Size(belt.t) < 2
    \/ belt.t[Size(belt.t) - 1] - belt.t[0] = 0

RECURSIVE SumOver(_, _)
SumOver(f, S) ==
    IF S = {} THEN 0
    ELSE LET x == CHOOSE y \in S : TRUE IN f[x] + SumOver(f, S \ {x})

C7_DegenerateBeltSkipped ==
    \A p \in participant_ids :
        (/\ Reached(p)
         /\ raw_dir[p].rt.exists
         /\ raw_dir[p].belt.exists
         /\ Degenerate(raw_dir[p].belt)) =>
            /\ ~StoppedAt(p)
            /\ \A i \in 1..Len(all_participants) :
                  \A j \in 1..Len(all_participants[i].rows) :
                      all_participants[i].rows[j].participant_id # p

====
